---- MODULE Spec2Model ----
(***************************************************************************)
(* Model of static/js/script.js, the browser-side handlers of the shop:    *)
(* checkout validation, quantity stepper, cart update, URL navigation,     *)
(* admin API helpers, client-side filters, CSV export and the wishlist.    *)
(* JavaScript strings are modelled as sequences of one-character strings.  *)
(***************************************************************************)
EXTENDS Integers, Sequences, FiniteSets, TLC

VARIABLES
    emailIn,      \* argument handed to isValidEmail
    emailOut,     \* "none" before the call, then "true" / "false"
    qtyPresent,   \* document.getElementById('quantity') is not null
    qtyMaxAttr,   \* the input's 'max' attribute (string)
    qtyValue,     \* the input's value (string)
    qtyOp,        \* last stepper call: "none", "inc", "dec"
    qtyPrev,      \* the numeric value before the last stepper call
    wlItem,       \* localStorage item 'wishlist': [present, text]
    wlAlert,      \* text of the last alert shown by addToWishlist
    wlLast,       \* history: per product id, whether added and the last name given
    serverOrders, \* JSON array the server answers GET /api/orders with
    csvPc,        \* exportOrdersToCSV: "idle", "fetching", "done"
    csvLogged,    \* console.error was called by the fetchOrders of the export
    csvText,      \* content of the Blob handed to the download link
    csvDownload,  \* a.download of the link that was clicked ("" before)
    serverProducts, \* JSON array the server answers GET /api/products with
    fpPc,         \* fetchProducts: "idle", "pending", "done"
    fpSettled,    \* how its promise settled: "none", "fulfilled", "rejected"
    fpValue,      \* the value it resolved with
    fpLogged,     \* console.error was called
    foPc,         \* fetchOrders, called on its own: same four fields
    foSettled,
    foValue,
    foLogged,
    uosPc,        \* updateOrderStatus: "idle", "pending", "done"
    uosRequest,   \* the order id and status it posted
    uosOutcome,   \* how the request ended ("none" before)
    uosAlert,     \* alert shown: "none", "success", "error"
    uosLogged,    \* console.error was called
    uosReloaded,  \* location.reload() was called
    formFields,   \* checkout inputs by id: [present, value]
    formHighlighted, \* ids of the inputs whose border style highlightError has set
    formResult,   \* validateCheckoutForm of the last submit: "none", "true", "false"
    formLastHighlight, \* ids of the inputs highlighted by the last submit
    formPrevented, \* the last submit event had preventDefault() called
    formAlert,    \* the last submit showed the alert
    formSubmitted,\* the browser went on to submit the form
    cartServer,   \* the server's cart: quantity per product id
    cartShown,    \* quantities rendered on the cart page when it was loaded
    cartLocation, \* window.location: [path, id]
    cartPending,  \* fetches of /update-cart in flight on this page
    cartCalls,    \* history: number of updateCart calls
    cartLastCall, \* history: arguments of the last updateCart call
    cartPosts,    \* history: number of POSTs to /update-cart/{id} issued
    cartHandled,  \* the request whose callbacks ran last and how it ended
    cartConfirm,  \* last confirm() dialog: "none", "yes", "no"
    cartLogged,   \* number of console.error calls
    cartReloads,  \* number of location.reload() calls
    urlSearch,    \* window.location.search, as tokens: "?", name, "=", value, "&", ...
    urlLastSort,  \* history: argument of the last sortProducts call ("-" before)
    urlLastCategory, \* history: argument of the last filterByCategory call
    urlLastNonEmpty, \* history: last non-empty argument of filterByCategory
    cards,        \* the .product-card elements: their texts as rendered
    cardDisplay,  \* style.display of each card: "", "block", "none"
    filtLast,     \* history: the last filter call and its arguments
    filtPrev      \* history: style.display of each card before that call

emailVars == <<emailIn, emailOut>>
qtyVars == <<qtyPresent, qtyMaxAttr, qtyValue, qtyOp, qtyPrev>>
wlVars == <<wlItem, wlAlert, wlLast>>
csvVars == <<serverOrders, csvPc, csvLogged, csvText, csvDownload>>
adminVars == <<serverProducts, fpPc, fpSettled, fpValue, fpLogged, foPc, foSettled, foValue,
    foLogged, uosPc, uosRequest, uosOutcome, uosAlert, uosLogged, uosReloaded>>
formVars == <<formFields, formHighlighted, formResult, formLastHighlight, formPrevented,
    formAlert, formSubmitted>>
cartVars == <<cartServer, cartShown, cartLocation, cartPending, cartCalls, cartLastCall, cartPosts,
    cartHandled, cartConfirm, cartLogged, cartReloads>>
urlVars == <<urlSearch, urlLastSort, urlLastCategory, urlLastNonEmpty>>
filtVars == <<cards, cardDisplay, filtLast, filtPrev>>
vars == <<emailVars, qtyVars, wlVars, csvVars, adminVars, formVars, cartVars, urlVars, filtVars>>

\* what the handlers of one group leave alone
NotEmail == <<qtyVars, wlVars, csvVars, adminVars, formVars, cartVars, urlVars, filtVars>>
NotQty == <<emailVars, wlVars, csvVars, adminVars, formVars, cartVars, urlVars, filtVars>>
NotWish == <<emailVars, qtyVars, csvVars, adminVars, formVars, cartVars, urlVars, filtVars>>
NotCsv == <<emailVars, qtyVars, wlVars, adminVars, formVars, cartVars, urlVars, filtVars>>
NotAdmin == <<emailVars, qtyVars, wlVars, csvVars, formVars, cartVars, urlVars, filtVars>>
NotForm == <<emailVars, qtyVars, wlVars, csvVars, adminVars, cartVars, urlVars, filtVars>>
NotCart == <<emailVars, qtyVars, wlVars, csvVars, adminVars, formVars, urlVars, filtVars>>
NotUrl == <<emailVars, qtyVars, wlVars, csvVars, adminVars, formVars, cartVars, filtVars>>
NotFilt == <<emailVars, qtyVars, wlVars, csvVars, adminVars, formVars, cartVars, urlVars>>

----------------------------------------------------------------------------
(* Bounds *)
MaxEmailLen == 5
MaxStock == 12
MaxWishId == 3
MaxOrders == 2
MaxCartCalls == 2
MaxCards == 2

----------------------------------------------------------------------------
(* JavaScript primitives *)

\* the value NaN: every comparison with it is false
NaN == -1

Whitespace == {" ", "\t", "\n"}

DigitChars == <<"0", "1", "2", "3", "4", "5", "6", "7", "8", "9">>

IsDigit(c) == \E d \in 1..10 : DigitChars[d] = c

DigitVal(c) == (CHOOSE d \in 1..10 : DigitChars[d] = c) - 1

\* String(n) for a non-negative integer
RECURSIVE NumToStr(_)
NumToStr(n) ==
    IF n < 10 THEN <<DigitChars[n + 1]>>
    ELSE NumToStr(n \div 10) \o <<DigitChars[(n % 10) + 1]>>

RECURSIVE SkipWhitespace(_)
SkipWhitespace(s) ==
    IF s # <<>> /\ Head(s) \in Whitespace THEN SkipWhitespace(Tail(s)) ELSE s

RECURSIVE ParseDigits(_, _)
ParseDigits(s, acc) ==
    IF s # <<>> /\ IsDigit(Head(s))
    THEN ParseDigits(Tail(s), acc * 10 + DigitVal(Head(s)))
    ELSE acc

\* parseInt(s): leading whitespace skipped, the longest digit prefix read,
\* NaN when there is no digit
parseInt(s) ==
    LET t == SkipWhitespace(s)
    IN IF t # <<>> /\ IsDigit(Head(t)) THEN ParseDigits(t, 0) ELSE NaN

JsLess(a, b) == a # NaN /\ b # NaN /\ a < b

JsGreater(a, b) == a # NaN /\ b # NaN /\ a > b

JsLessEq(a, b) == a # NaN /\ b # NaN /\ a <= b

JsGreaterEq(a, b) == a # NaN /\ b # NaN /\ a >= b

\* the k-th smallest element of a finite set of integers
Nth(S, k) == CHOOSE p \in S : Cardinality({q \in S : q < p}) = k - 1

\* the pieces of t between the separator positions seps
Pieces(t, seps) ==
    [k \in 1..(Cardinality(seps) + 1) |->
        SubSeq(t,
               IF k = 1 THEN 1 ELSE Nth(seps, k - 1) + 1,
               IF k = Cardinality(seps) + 1 THEN Len(t) ELSE Nth(seps, k) - 1)]

----------------------------------------------------------------------------
(* isValidEmail: /^[^\s@]+@[^\s@]+\.[^\s@]+$/ *)

EmailClass(c) == c \notin Whitespace /\ c # "@"

EmailRun(s, i, j) == i <= j /\ \A k \in i..j : EmailClass(s[k])

\* the pattern with the literal dot left out: /^[^\s@]+@[^\s@]+$/
isValidEmail_noDot(s) ==
    \E a \in 1..Len(s) :
        /\ s[a] = "@"
        /\ EmailRun(s, 1, a - 1)
        /\ EmailRun(s, a + 1, Len(s))

isValidEmail(s) ==
    \E a \in 1..Len(s), d \in 1..Len(s) :
        /\ s[a] = "@"
        /\ s[d] = "."
        /\ EmailRun(s, 1, a - 1)
        /\ EmailRun(s, a + 1, d - 1)
        /\ EmailRun(s, d + 1, Len(s))

EmailAlphabet == {"u", "@", ".", " "}

Str_user_at_example_com ==
    <<"u", "s", "e", "r", "@", "e", "x", "a", "m", "p", "l", "e", ".", "c", "o", "m">>
Str_user_at == <<"u", "s", "e", "r", "@">>
Str_at_example_com == <<"@", "e", "x", "a", "m", "p", "l", "e", ".", "c", "o", "m">>
Str_userexample_com ==
    <<"u", "s", "e", "r", "e", "x", "a", "m", "p", "l", "e", ".", "c", "o", "m">>

EmailInputs ==
    UNION {[1..n -> EmailAlphabet] : n \in 0..MaxEmailLen}
    \cup {Str_user_at_example_com, Str_user_at, Str_at_example_com, Str_userexample_com}

EmailOff == emailIn = <<>> /\ emailOut = "none"

CallIsValidEmail ==
    /\ emailOut = "none"
    /\ emailOut' = IF isValidEmail(emailIn) THEN "true" ELSE "false"
    /\ UNCHANGED <<emailIn, NotEmail>>

----------------------------------------------------------------------------
(* Quantity selectors *)

QtyOff ==
    /\ qtyPresent = FALSE
    /\ qtyMaxAttr = <<>>
    /\ qtyValue = <<>>
    /\ qtyOp = "none"
    /\ qtyPrev = 0

\* increaseQty with the stock test written <= instead of <
increaseQty_offByOne ==
    /\ qtyOp' = "inc"
    /\ qtyPrev' = parseInt(qtyValue)
    /\ qtyValue' =
          IF qtyPresent /\ ~JsGreater(parseInt(qtyValue), parseInt(qtyMaxAttr))
          THEN NumToStr(parseInt(qtyValue) + 1)
          ELSE qtyValue
    /\ UNCHANGED <<qtyPresent, qtyMaxAttr, NotQty>>

increaseQty ==
    /\ qtyOp' = "inc"
    /\ qtyPrev' = parseInt(qtyValue)
    /\ qtyValue' =
          IF qtyPresent /\ JsLess(parseInt(qtyValue), parseInt(qtyMaxAttr))
          THEN NumToStr(parseInt(qtyValue) + 1)
          ELSE qtyValue
    /\ UNCHANGED <<qtyPresent, qtyMaxAttr, NotQty>>

decreaseQty ==
    /\ qtyOp' = "dec"
    /\ qtyPrev' = parseInt(qtyValue)
    /\ qtyValue' =
          IF qtyPresent /\ JsGreater(parseInt(qtyValue), 1)
          THEN NumToStr(parseInt(qtyValue) - 1)
          ELSE qtyValue
    /\ UNCHANGED <<qtyPresent, qtyMaxAttr, NotQty>>

----------------------------------------------------------------------------
(* Wishlist (localStorage) *)

Quote == "\""
Backslash == "\\"

RECURSIVE JsonEscape(_)
JsonEscape(s) ==
    IF s = <<>> THEN <<>>
    ELSE (IF Head(s) \in {Quote, Backslash} THEN <<Backslash, Head(s)>> ELSE <<Head(s)>>)
         \o JsonEscape(Tail(s))

JsonString(s) == <<Quote>> \o JsonEscape(s) \o <<Quote>>

RECURSIVE JsonMembers(_)
JsonMembers(obj) ==
    IF obj = <<>> THEN <<>>
    ELSE JsonString(obj[1].key) \o <<":">> \o JsonString(obj[1].val)
         \o (IF Len(obj) > 1 THEN <<",">> ELSE <<>>)
         \o JsonMembers(Tail(obj))

\* JSON.stringify of an object whose values are strings; the object is the
\* sequence of its own properties in enumeration order
JSONstringify(obj) == <<"{">> \o JsonMembers(obj) \o <<"}">>

\* reads a JSON string body starting after its opening quote
RECURSIVE ReadJsonString(_, _, _)
ReadJsonString(t, i, acc) ==
    IF t[i] = Quote THEN [val |-> acc, next |-> i + 1]
    ELSE IF t[i] = Backslash THEN ReadJsonString(t, i + 2, Append(acc, t[i + 1]))
    ELSE ReadJsonString(t, i + 1, Append(acc, t[i]))

RECURSIVE ReadJsonMembers(_, _, _)
ReadJsonMembers(t, i, acc) ==
    LET k == ReadJsonString(t, i + 1, <<>>)
        v == ReadJsonString(t, k.next + 2, <<>>)
        acc2 == Append(acc, [key |-> k.val, val |-> v.val])
    IN IF t[v.next] = "," THEN ReadJsonMembers(t, v.next + 1, acc2) ELSE acc2

\* the members written in a JSON object text, in textual order
JsonEntries(t) == IF t[2] = "}" THEN <<>> ELSE ReadJsonMembers(t, 2, <<>>)

\* a property key that is a canonical array index ("0", "7", "12")
IsArrayIndex(key) == parseInt(key) # NaN /\ key = NumToStr(parseInt(key))

RECURSIVE InsertIndexKey(_, _, _)
InsertIndexKey(obj, key, val) ==
    IF obj = <<>> \/ ~IsArrayIndex(obj[1].key) \/ parseInt(obj[1].key) > parseInt(key)
    THEN <<[key |-> key, val |-> val]>> \o obj
    ELSE <<obj[1]>> \o InsertIndexKey(Tail(obj), key, val)

\* obj[key] = val written so that every assignment adds a new property
ObjSet_duplicating(obj, key, val) == Append(obj, [key |-> key, val |-> val])

\* obj[key] = val: an existing property keeps its place, a new integer key
\* goes in ascending order before the string keys, a new string key goes last
ObjSet(obj, key, val) ==
    IF \E i \in 1..Len(obj) : obj[i].key = key
    THEN [i \in 1..Len(obj) |->
            IF obj[i].key = key THEN [key |-> key, val |-> val] ELSE obj[i]]
    ELSE IF IsArrayIndex(key) THEN InsertIndexKey(obj, key, val)
    ELSE Append(obj, [key |-> key, val |-> val])

RECURSIVE ObjFromEntries(_, _)
ObjFromEntries(entries, obj) ==
    IF entries = <<>> THEN obj
    ELSE ObjFromEntries(Tail(entries), ObjSet(obj, entries[1].key, entries[1].val))

JSONparse(t) == ObjFromEntries(JsonEntries(t), <<>>)

\* String(productId) as used for the property key
ToPropertyKey(id) == IF id.t = "num" THEN NumToStr(id.n) ELSE id.s

WishIds ==
    {[t |-> "num", n |-> n, s |-> <<>>] : n \in 1..MaxWishId}
    \cup {[t |-> "str", n |-> 0, s |-> <<"s", "k", "u">>]}

WishNames == {<<"T", "e", "e">>, <<"5", Quote, Backslash>>}

AddedSuffix ==
    <<" ", "a", "d", "d", "e", "d", " ", "t", "o", " ",
      "w", "i", "s", "h", "l", "i", "s", "t", "!">>

\* localStorage.getItem('wishlist') || '{}'
WishText(item) == IF item.present /\ item.text # <<>> THEN item.text ELSE <<"{", "}">>

getWishlist == JSONparse(WishText(wlItem))

\* the item stored by addToWishlist(productId, productName) on top of item
AddToWishlistItem(item, productId, productName) ==
    [present |-> TRUE,
     text |-> JSONstringify(ObjSet(JSONparse(WishText(item)),
                                   ToPropertyKey(productId), productName))]

WishOff ==
    /\ wlItem = [present |-> FALSE, text |-> <<>>]
    /\ wlAlert = <<>>
    /\ wlLast = [id \in WishIds |-> [added |-> FALSE, name |-> <<>>]]

addToWishlist(productId, productName) ==
    /\ wlItem' = AddToWishlistItem(wlItem, productId, productName)
    /\ wlAlert' = productName \o AddedSuffix
    /\ wlLast' = [wlLast EXCEPT ![productId] = [added |-> TRUE, name |-> productName]]
    /\ UNCHANGED NotWish

AddToWishlist == \E id \in WishIds, name \in WishNames : addToWishlist(id, name)

----------------------------------------------------------------------------
(* fetchOrders and exportOrdersToCSV *)

\* how a fetch(...) followed by response.json() can end
FetchOutcomes == {"ok", "network_error", "parse_error"}

\* value an async fetch helper resolves with: the parsed body, or [] from the
\* catch block when fetch() rejected or response.json() threw
FetchHelperValue(outcome, body) == IF outcome = "ok" THEN body ELSE <<>>

\* whether the catch block of a fetch helper ran (console.error)
FetchHelperLogged(outcome) == outcome # "ok"

\* String(x) for an amount held in hundredths: 1950 -> "19.5", 2005 -> "20.05"
NumberToString(c) ==
    NumToStr(c \div 100) \o
       (IF c % 100 = 0 THEN <<>>
        ELSE IF c % 10 = 0 THEN <<".", DigitChars[((c % 100) \div 10) + 1]>>
        ELSE <<".", DigitChars[((c % 100) \div 10) + 1], DigitChars[(c % 10) + 1]>>)

CsvHeader ==
    <<"O", "r", "d", "e", "r", " ", "N", "u", "m", "b", "e", "r", ",", "C",
      "u", "s", "t", "o", "m", "e", "r", ",", "E", "m", "a", "i", "l", ",",
      "T", "o", "t", "a", "l", ",", "S", "t", "a", "t", "u", "s", ",", "D",
      "a", "t", "e", "\n">>

\* the template literal of the forEach body without quotes around the name
CsvLine_bareName(order) ==
    <<Quote>> \o order.order_number \o <<Quote, ",">> \o order.customer_name
    \o <<",", Quote>> \o order.customer_email \o <<Quote, ",">>
    \o NumberToString(order.total_amount) \o <<",", Quote>> \o order.status
    \o <<Quote, ",", Quote>> \o order.created_at \o <<Quote, "\n">>

\* the template literal of the forEach body
CsvLine(order) ==
    <<Quote>> \o order.order_number \o <<Quote, ",", Quote>> \o order.customer_name
    \o <<Quote, ",", Quote>> \o order.customer_email \o <<Quote, ",">>
    \o NumberToString(order.total_amount) \o <<",", Quote>> \o order.status
    \o <<Quote, ",", Quote>> \o order.created_at \o <<Quote, "\n">>

RECURSIVE CsvBody(_)
CsvBody(orders) ==
    IF orders = <<>> THEN <<>> ELSE CsvLine(Head(orders)) \o CsvBody(Tail(orders))

BuildCsv(orders) == CsvHeader \o CsvBody(orders)

OrderNumbers == {<<"A", "1">>, <<"B", "2">>}
CustomerNames == {<<"A", "n", "n">>, <<"D", "o", "e", ",", " ", "J">>}
CustomerEmails == {<<"a", "@", "b", ".", "c">>}
TotalAmounts == {0, 1950, 2005}
OrderStatuses == {<<"p", "a", "i", "d">>, <<"n", "e", "w">>}
CreatedAts == {<<"2", "0", "2", "6", "-", "0", "1", "-", "0", "2">>}

Orders ==
    [order_number : OrderNumbers, customer_name : CustomerNames,
     customer_email : CustomerEmails, total_amount : TotalAmounts,
     status : OrderStatuses, created_at : CreatedAts]

OrderLists == UNION {[1..n -> Orders] : n \in 0..MaxOrders}

CsvOff ==
    /\ serverOrders = <<>>
    /\ csvPc = "idle"
    /\ csvLogged = FALSE
    /\ csvText = <<>>
    /\ csvDownload = ""

\* exportOrdersToCSV() up to the pending fetch inside fetchOrders()
ExportOrdersToCSV ==
    /\ csvPc = "idle"
    /\ csvPc' = "fetching"
    /\ UNCHANGED <<serverOrders, csvLogged, csvText, csvDownload>>
    /\ UNCHANGED NotCsv

\* fetchOrders() settles and the .then callback builds and downloads the file
ExportSettle ==
    /\ csvPc = "fetching"
    /\ csvPc' = "done"
    /\ \E outcome \in FetchOutcomes :
          /\ csvLogged' = FetchHelperLogged(outcome)
          /\ csvText' = BuildCsv(FetchHelperValue(outcome, serverOrders))
    /\ csvDownload' = "orders.csv"
    /\ UNCHANGED serverOrders
    /\ UNCHANGED NotCsv

----------------------------------------------------------------------------
(* API calls for Admin *)

\* an async helper whose whole body is inside try/catch returns on both paths
FetchHelperSettled(outcome) == "fulfilled"

ProductLists ==
    {<<>>, <<[id |-> 1, name |-> <<"T", "e", "e">>]>>,
     <<[id |-> 1, name |-> <<"T", "e", "e">>], [id |-> 2, name |-> <<"C", "a", "p">>]>>}

AdminOrderLists ==
    {l \in OrderLists :
        \A i \in 1..Len(l) : l[i].total_amount = 1950 /\ l[i].order_number = <<"A", "1">>}

OrderIds == {7, 8}

\* how POST /api/order/{id}/status can end: a 2xx answer with a JSON body, a
\* 2xx answer whose body is not JSON, a non-2xx answer, a rejected fetch
StatusOutcomes == {"ok", "ok_bad_json", "not_ok", "network_error"}

FetchProductsIdle ==
    /\ fpPc = "idle"
    /\ fpSettled = "none"
    /\ fpValue = <<>>
    /\ fpLogged = FALSE

FetchOrdersIdle ==
    /\ foPc = "idle"
    /\ foSettled = "none"
    /\ foValue = <<>>
    /\ foLogged = FALSE

UpdateStatusIdle ==
    /\ uosPc = "idle"
    /\ uosRequest = [orderId |-> 0, status |-> <<>>]
    /\ uosOutcome = "none"
    /\ uosAlert = "none"
    /\ uosLogged = FALSE
    /\ uosReloaded = FALSE

AdminOff ==
    /\ serverProducts = <<>>
    /\ FetchProductsIdle
    /\ FetchOrdersIdle
    /\ UpdateStatusIdle

fpVars == <<fpPc, fpSettled, fpValue, fpLogged>>
foVars == <<foPc, foSettled, foValue, foLogged>>
uosVars == <<uosPc, uosRequest, uosOutcome, uosAlert, uosLogged, uosReloaded>>

\* fetchProducts() up to the pending fetch
FetchProductsCall ==
    /\ fpPc \in {"idle", "done"}
    /\ fpPc' = "pending"
    /\ fpSettled' = "none"
    /\ fpValue' = <<>>
    /\ fpLogged' = FALSE
    /\ UNCHANGED <<serverProducts, foVars, uosVars, NotAdmin>>

\* the fetch settles: the body is returned, or the catch block logs and
\* returns []
FetchProductsSettle ==
    /\ fpPc = "pending"
    /\ fpPc' = "done"
    /\ \E outcome \in FetchOutcomes :
          /\ fpSettled' = FetchHelperSettled(outcome)
          /\ fpValue' = FetchHelperValue(outcome, serverProducts)
          /\ fpLogged' = FetchHelperLogged(outcome)
    /\ UNCHANGED <<serverProducts, foVars, uosVars, NotAdmin>>

\* fetchOrders() up to the pending fetch
FetchOrdersCall ==
    /\ foPc \in {"idle", "done"}
    /\ foPc' = "pending"
    /\ foSettled' = "none"
    /\ foValue' = <<>>
    /\ foLogged' = FALSE
    /\ UNCHANGED <<serverProducts, fpVars, uosVars, NotAdmin>>

\* the fetch settles: the body is returned, or the catch block logs and
\* returns []
FetchOrdersSettle ==
    /\ foPc = "pending"
    /\ foPc' = "done"
    /\ \E outcome \in FetchOutcomes :
          /\ foSettled' = FetchHelperSettled(outcome)
          /\ foValue' = FetchHelperValue(outcome, serverOrders)
          /\ foLogged' = FetchHelperLogged(outcome)
    /\ UNCHANGED <<serverProducts, fpVars, uosVars, NotAdmin>>

\* updateOrderStatus(orderId, status) up to the pending fetch
UpdateOrderStatusCall ==
    /\ uosPc \in {"idle", "done"}
    /\ \E orderId \in OrderIds, status \in OrderStatuses :
          uosRequest' = [orderId |-> orderId, status |-> status]
    /\ uosPc' = "pending"
    /\ uosOutcome' = "none"
    /\ uosAlert' = "none"
    /\ uosLogged' = FALSE
    /\ uosReloaded' = FALSE
    /\ UNCHANGED <<serverProducts, fpVars, foVars, NotAdmin>>

\* response.ok and a JSON body: success alert, then location.reload(), which
\* discards the page together with the helpers still pending on it
UpdateOrderStatusOk ==
    /\ uosPc = "pending"
    /\ uosPc' = "done"
    /\ uosOutcome' = "ok"
    /\ uosAlert' = "success"
    /\ uosReloaded' = TRUE
    /\ fpPc' = "idle"
    /\ fpSettled' = "none"
    /\ fpValue' = <<>>
    /\ fpLogged' = FALSE
    /\ foPc' = "idle"
    /\ foSettled' = "none"
    /\ foValue' = <<>>
    /\ foLogged' = FALSE
    /\ UNCHANGED <<serverProducts, uosRequest, uosLogged, NotAdmin>>

\* the other ends: the else branch alerts, the catch block only logs
UpdateOrderStatusFail ==
    /\ uosPc = "pending"
    /\ uosPc' = "done"
    /\ \E outcome \in StatusOutcomes \ {"ok"} :
          /\ uosOutcome' = outcome
          /\ uosAlert' = IF outcome = "not_ok" THEN "error" ELSE "none"
          /\ uosLogged' = (outcome \in {"ok_bad_json", "network_error"})
    /\ UNCHANGED <<serverProducts, uosRequest, uosReloaded, fpVars, foVars, NotAdmin>>

----------------------------------------------------------------------------
(* Form Validation *)

RECURSIVE TrimStart(_)
TrimStart(s) == IF s # <<>> /\ Head(s) \in Whitespace THEN TrimStart(Tail(s)) ELSE s

RECURSIVE TrimEnd(_)
TrimEnd(s) ==
    IF s # <<>> /\ s[Len(s)] \in Whitespace THEN TrimEnd(SubSeq(s, 1, Len(s) - 1)) ELSE s

\* String.prototype.trim
Trim(s) == TrimEnd(TrimStart(s))

FieldIds ==
    <<"customer_name", "customer_email", "shipping_address", "shipping_city",
      "payment_method">>

FieldIdSet == {FieldIds[i] : i \in 1..Len(FieldIds)}

\* !el || !el.value.trim()
BlankText(el) == ~el.present \/ Trim(el.value) = <<>>

\* !email || !isValidEmail(email.value)
BadEmail(el) == ~el.present \/ ~isValidEmail(el.value)

\* !payment || !payment.value
BlankChoice(el) == ~el.present \/ el.value = <<>>

\* the chain of tests with the email tested before the name
FirstOffending_emailFirst(fields) ==
    IF BadEmail(fields["customer_email"]) THEN "customer_email"
    ELSE IF BlankText(fields["customer_name"]) THEN "customer_name"
    ELSE IF BlankText(fields["shipping_address"]) THEN "shipping_address"
    ELSE IF BlankText(fields["shipping_city"]) THEN "shipping_city"
    ELSE IF BlankChoice(fields["payment_method"]) THEN "payment_method"
    ELSE "none"

\* the id whose test makes validateCheckoutForm return false, "none" when
\* every test passes
FirstOffending(fields) ==
    IF BlankText(fields["customer_name"]) THEN "customer_name"
    ELSE IF BadEmail(fields["customer_email"]) THEN "customer_email"
    ELSE IF BlankText(fields["shipping_address"]) THEN "shipping_address"
    ELSE IF BlankText(fields["shipping_city"]) THEN "shipping_city"
    ELSE IF BlankChoice(fields["payment_method"]) THEN "payment_method"
    ELSE "none"

validateCheckoutForm(fields) == FirstOffending(fields) = "none"

\* highlightError(element): the elements whose style is set, none for null
highlightError(fields, id) == IF id # "none" /\ fields[id].present THEN {id} ELSE {}

TextValues == {<<>>, <<" ">>, <<"A", "l">>}
EmailValues == {<<>>, <<"a", "@", "b">>, <<"a", "@", "b", ".", "c">>}
ChoiceValues == {<<>>, <<"c", "o", "d">>}

FieldValues(id) ==
    IF id = "customer_email" THEN EmailValues
    ELSE IF id = "payment_method" THEN ChoiceValues
    ELSE TextValues

\* the ids missing from the page: none, or any one of the five
MissingSets == {{}} \cup {{id} : id \in FieldIdSet}

FormOff ==
    /\ formFields = [id \in FieldIdSet |-> [present |-> FALSE, value |-> <<>>]]
    /\ formHighlighted = {}
    /\ formResult = "none"
    /\ formLastHighlight = {}
    /\ formPrevented = FALSE
    /\ formAlert = FALSE
    /\ formSubmitted = FALSE

\* the user edits an input; what the last submit reported is no longer current
TypeField ==
    /\ ~formSubmitted
    /\ \E id \in FieldIdSet :
          /\ formFields[id].present
          /\ \E v \in FieldValues(id) :
                /\ v # formFields[id].value
                /\ formFields' = [formFields EXCEPT ![id].value = v]
    /\ formResult' = "none"
    /\ formLastHighlight' = {}
    /\ formPrevented' = FALSE
    /\ formAlert' = FALSE
    /\ UNCHANGED <<formHighlighted, formSubmitted, NotForm>>

\* the 'submit' listener of .checkout-form
SubmitCheckout ==
    /\ ~formSubmitted
    /\ LET ok == validateCheckoutForm(formFields)
           hl == highlightError(formFields, FirstOffending(formFields))
       IN /\ formResult' = IF ok THEN "true" ELSE "false"
          /\ formLastHighlight' = hl
          /\ formHighlighted' = formHighlighted \cup hl
          /\ formPrevented' = ~ok
          /\ formAlert' = ~ok
          /\ formSubmitted' = ok
    /\ UNCHANGED <<formFields, NotForm>>

----------------------------------------------------------------------------
(* Cart Operations *)

CartProducts == {1, 2}

\* quantities handed to updateCart: 0 asks for the removal
CartQuantities == {0, 1, 2}

CartPage == [path |-> "/cart", id |-> 0]

\* what the server has answered to a request: nothing yet, {success: true},
\* {success: false}, a JSON body without the flag, a body that is not JSON
CartAnswers == {"none", "true", "false", "missing", "garbage"}

CartOff ==
    /\ cartServer = [p \in CartProducts |-> 0]
    /\ cartShown = [p \in CartProducts |-> 0]
    /\ cartLocation = CartPage
    /\ cartPending = {}
    /\ cartCalls = 0
    /\ cartLastCall = [id |-> 0, quantity |-> 0]
    /\ cartPosts = 0
    /\ cartHandled = [n |-> 0, outcome |-> "none"]
    /\ cartConfirm = "none"
    /\ cartLogged = 0
    /\ cartReloads = 0

\* removeFromCart(productId): the location after the confirm dialog
RemoveLocation(productId, confirmed) ==
    IF confirmed THEN [path |-> "/remove-from-cart", id |-> productId] ELSE cartLocation

\* the requests sent by updateCart(productId, quantity)
UpdateCartRequests(productId, quantity) ==
    IF quantity < 1 THEN <<>> ELSE <<[id |-> productId, quantity |-> quantity]>>

\* updateCart with the removal asked for without the early return
UpdateCart_noReturn ==
    /\ cartLocation = CartPage
    /\ cartCalls < MaxCartCalls
    /\ \E productId \in CartProducts, quantity \in CartQuantities, confirmed \in BOOLEAN :
          /\ cartCalls' = cartCalls + 1
          /\ cartLastCall' = [id |-> productId, quantity |-> quantity]
          /\ cartPosts' = cartPosts + 1
          /\ cartPending' = cartPending \cup
                {[n |-> cartCalls + 1, id |-> productId,
                  quantity |-> quantity, answer |-> "none"]}
          /\ IF quantity < 1
             THEN /\ cartConfirm' = IF confirmed THEN "yes" ELSE "no"
                  /\ cartLocation' = RemoveLocation(productId, confirmed)
             ELSE /\ confirmed
                  /\ cartConfirm' = "none"
                  /\ cartLocation' = cartLocation
    /\ UNCHANGED <<cartServer, cartShown, cartHandled, cartLogged, cartReloads, NotCart>>

\* updateCart(productId, quantity): below 1 it hands over to removeFromCart
\* and returns, otherwise it sends the POST and returns
UpdateCart ==
    /\ cartLocation = CartPage
    /\ cartCalls < MaxCartCalls
    /\ \E productId \in CartProducts, quantity \in CartQuantities, confirmed \in BOOLEAN :
          /\ cartCalls' = cartCalls + 1
          /\ cartLastCall' = [id |-> productId, quantity |-> quantity]
          /\ cartPosts' = cartPosts + Len(UpdateCartRequests(productId, quantity))
          /\ cartPending' = cartPending \cup
                {[n |-> cartCalls + 1, id |-> productId,
                  quantity |-> quantity, answer |-> "none"] :
                    i \in 1..Len(UpdateCartRequests(productId, quantity))}
          /\ IF quantity < 1
             THEN /\ cartConfirm' = IF confirmed THEN "yes" ELSE "no"
                  /\ cartLocation' = RemoveLocation(productId, confirmed)
             ELSE /\ confirmed
                  /\ cartConfirm' = "none"
                  /\ cartLocation' = cartLocation
    /\ UNCHANGED <<cartServer, cartShown, cartHandled, cartLogged, cartReloads, NotCart>>

\* removeFromCart(productId) called from the page
RemoveFromCart ==
    /\ cartLocation = CartPage
    /\ \E productId \in CartProducts, confirmed \in BOOLEAN :
          /\ cartConfirm' = IF confirmed THEN "yes" ELSE "no"
          /\ cartLocation' = RemoveLocation(productId, confirmed)
    /\ UNCHANGED <<cartServer, cartShown, cartPending, cartCalls, cartLastCall,
                   cartPosts, cartHandled, cartLogged, cartReloads, NotCart>>

\* the server handles POST /update-cart/{id} and answers
ServerUpdateCart ==
    \E r \in cartPending, a \in CartAnswers \ {"none"} :
        /\ r.answer = "none"
        /\ cartPending' = (cartPending \ {r}) \cup {[r EXCEPT !.answer = a]}
        /\ cartServer' = IF a = "true" THEN [cartServer EXCEPT ![r.id] = r.quantity]
                         ELSE cartServer
        /\ UNCHANGED <<cartShown, cartLocation, cartCalls, cartLastCall, cartPosts,
                       cartHandled, cartConfirm, cartLogged, cartReloads, NotCart>>

\* the server handles GET /remove-from-cart/{id} and sends the cart page back
ServerRemoveFromCart ==
    /\ cartLocation.path = "/remove-from-cart"
    /\ cartServer' = [cartServer EXCEPT ![cartLocation.id] = 0]
    /\ cartShown' = cartServer'
    /\ cartLocation' = CartPage
    /\ cartPending' = {}
    /\ cartConfirm' = "none"
    /\ UNCHANGED <<cartCalls, cartLastCall, cartPosts, cartHandled, cartLogged, cartReloads, NotCart>>

\* how the promise chain of a request ends, given what the server answered
CartOutcome(answer) ==
    IF answer = "true" THEN "success"
    ELSE IF answer \in {"false", "missing"} THEN "no_success"
    ELSE "parse_error"

\* the .then chain with the reload done whatever the flag says
CartResponse_alwaysReload ==
    /\ cartLocation = CartPage
    /\ \E r \in cartPending :
          /\ r.answer # "none"
          /\ cartHandled' = [n |-> r.n, outcome |-> CartOutcome(r.answer)]
          /\ IF r.answer # "garbage"
             THEN /\ cartReloads' = cartReloads + 1
                  /\ cartShown' = cartServer
                  /\ cartPending' = {}
                  /\ cartLogged' = cartLogged
             ELSE /\ cartLogged' = cartLogged + 1
                  /\ cartPending' = cartPending \ {r}
                  /\ UNCHANGED <<cartShown, cartReloads>>
    /\ UNCHANGED <<cartServer, cartLocation, cartCalls, cartLastCall, cartPosts, cartConfirm, NotCart>>

\* the response arrives: response.json(), then the reload when data.success
\* is truthy; a body that does not parse goes to the .catch
CartResponse ==
    /\ cartLocation = CartPage
    /\ \E r \in cartPending :
          /\ r.answer # "none"
          /\ cartHandled' = [n |-> r.n, outcome |-> CartOutcome(r.answer)]
          /\ IF r.answer = "true"
             THEN /\ cartReloads' = cartReloads + 1
                  /\ cartShown' = cartServer
                  /\ cartPending' = {}
                  /\ cartLogged' = cartLogged
             ELSE /\ cartLogged' = IF r.answer = "garbage" THEN cartLogged + 1
                                   ELSE cartLogged
                  /\ cartPending' = cartPending \ {r}
                  /\ UNCHANGED <<cartShown, cartReloads>>
    /\ UNCHANGED <<cartServer, cartLocation, cartCalls, cartLastCall, cartPosts, cartConfirm, NotCart>>

\* fetch() rejects (request or response lost): the .catch logs
CartNetworkError ==
    /\ cartLocation = CartPage
    /\ \E r \in cartPending :
          /\ cartHandled' = [n |-> r.n, outcome |-> "network_error"]
          /\ cartPending' = cartPending \ {r}
          /\ cartLogged' = cartLogged + 1
    /\ UNCHANGED <<cartServer, cartShown, cartLocation, cartCalls, cartLastCall,
                   cartPosts, cartConfirm, cartReloads, NotCart>>

----------------------------------------------------------------------------
(* Sort and Filter: URL navigation *)

\* new URL(window.location).searchParams: the name/value pairs of the query,
\* a parameter written without '=' having the empty value
ParseQuery(search) ==
    IF search = <<>> THEN <<>>
    ELSE LET body == Tail(search)
             items == Pieces(body, {i \in 1..Len(body) : body[i] = "&"})
         IN [k \in 1..Len(items) |->
                [name |-> items[k][1],
                 value |-> IF Len(items[k]) >= 3 THEN items[k][3] ELSE ""]]

RECURSIVE SerializePairs(_)
SerializePairs(params) ==
    IF params = <<>> THEN <<>>
    ELSE <<params[1].name, "=", params[1].value>>
         \o (IF Len(params) > 1 THEN <<"&">> ELSE <<>>)
         \o SerializePairs(Tail(params))

\* the search part of currentUrl.toString()
SerializeQuery(params) == IF params = <<>> THEN <<>> ELSE <<"?">> \o SerializePairs(params)

RECURSIVE ReplaceFirstDropRest(_, _, _, _)
ReplaceFirstDropRest(params, name, value, seen) ==
    IF params = <<>> THEN <<>>
    ELSE IF params[1].name # name
         THEN <<params[1]>> \o ReplaceFirstDropRest(Tail(params), name, value, seen)
    ELSE IF seen THEN ReplaceFirstDropRest(Tail(params), name, value, TRUE)
    ELSE <<[name |-> name, value |-> value]>>
         \o ReplaceFirstDropRest(Tail(params), name, value, TRUE)

\* searchParams.append(name, value) in the place of set
ParamsSet_append(params, name, value) == Append(params, [name |-> name, value |-> value])

\* searchParams.set(name, value): the first pair of that name gets the value
\* and the others go; a new name is appended
ParamsSet(params, name, value) ==
    IF \E i \in 1..Len(params) : params[i].name = name
    THEN ReplaceFirstDropRest(params, name, value, FALSE)
    ELSE Append(params, [name |-> name, value |-> value])

HasOtherName(pair, name) == pair.name # name

\* searchParams.delete(name)
ParamsDelete(params, name) ==
    LET Keep(pair) == HasOtherName(pair, name) IN SelectSeq(params, Keep)

SortTypes == {"", "price", "name"}
Categories == {"", "tees", "caps"}

InitialSearches ==
    {<<>>,
     <<"?", "sort", "=", "price">>,
     <<"?", "category", "=", "tees", "&", "sort", "=", "name">>,
     <<"?", "sort", "=", "price", "&", "q", "=", "x", "&", "sort", "=", "name">>,
     <<"?", "page", "&", "category", "=", "caps">>,
     <<"?", "category", "=", "tees", "&", "page", "=", "2", "&", "category", "=", "caps">>}

UrlOff ==
    /\ urlSearch = <<>>
    /\ urlLastSort = "-"
    /\ urlLastCategory = "-"
    /\ urlLastNonEmpty = "-"

sortProducts(sortType) ==
    /\ urlSearch' = SerializeQuery(ParamsSet(ParseQuery(urlSearch), "sort", sortType))
    /\ urlLastSort' = sortType
    /\ UNCHANGED <<urlLastCategory, urlLastNonEmpty, NotUrl>>

SortProducts == \E sortType \in SortTypes : sortProducts(sortType)

filterByCategory(category) ==
    /\ urlSearch' =
          SerializeQuery(IF category # ""
                         THEN ParamsSet(ParseQuery(urlSearch), "category", category)
                         ELSE ParamsDelete(ParseQuery(urlSearch), "category"))
    /\ urlLastCategory' = category
    /\ urlLastNonEmpty' = IF category # "" THEN category ELSE urlLastNonEmpty
    /\ UNCHANGED <<urlLastSort, NotUrl>>

FilterByCategory == \E category \in Categories : filterByCategory(category)

----------------------------------------------------------------------------
(* Product search and price filter *)

UpperChars ==
    <<"A", "B", "C", "D", "E", "F", "G", "H", "I", "J", "K", "L", "M",
      "N", "O", "P", "Q", "R", "S", "T", "U", "V", "W", "X", "Y", "Z">>
LowerChars ==
    <<"a", "b", "c", "d", "e", "f", "g", "h", "i", "j", "k", "l", "m",
      "n", "o", "p", "q", "r", "s", "t", "u", "v", "w", "x", "y", "z">>

LowerChar(c) ==
    IF \E i \in 1..26 : UpperChars[i] = c
    THEN LowerChars[CHOOSE i \in 1..26 : UpperChars[i] = c]
    ELSE c

\* String.prototype.toLowerCase
toLowerCase(s) == [i \in 1..Len(s) |-> LowerChar(s[i])]

\* String.prototype.includes
includes(s, q) == \E i \in 0..(Len(s) - Len(q)) : SubSeq(s, i + 1, i + Len(q)) = q

\* el?.textContent.toLowerCase() || ''
LowerTextOf(el) == IF el.present THEN toLowerCase(el.text) ELSE <<>>

\* el?.textContent || ''
TextOf(el) == IF el.present THEN el.text ELSE <<>>

\* s.replace('$', ''): the first '$' is taken out
ReplaceDollar(s) ==
    IF \E i \in 1..Len(s) : s[i] = "$"
    THEN LET k == CHOOSE i \in 1..Len(s) : s[i] = "$" /\ \A j \in 1..(i - 1) : s[j] # "$"
         IN SubSeq(s, 1, k - 1) \o SubSeq(s, k + 1, Len(s))
    ELSE s

\* the digits s starts with
RECURSIVE DigitPrefix(_)
DigitPrefix(s) ==
    IF s # <<>> /\ IsDigit(Head(s)) THEN <<Head(s)>> \o DigitPrefix(Tail(s)) ELSE <<>>

\* parseFloat(s), in hundredths (fractions of up to two digits): leading
\* whitespace skipped, then digits, then an optional '.' and digits; NaN when
\* no digit was read
parseFloat(s) ==
    LET t == SkipWhitespace(s)
        whole == DigitPrefix(t)
        rest == SubSeq(t, Len(whole) + 1, Len(t))
        frac == IF rest # <<>> /\ Head(rest) = "." THEN DigitPrefix(Tail(rest)) ELSE <<>>
        cents == IF frac = <<>> THEN 0
                 ELSE IF Len(frac) = 1 THEN DigitVal(frac[1]) * 10
                 ELSE DigitVal(frac[1]) * 10 + DigitVal(frac[2])
    IN IF whole = <<>> /\ frac = <<>> THEN NaN
       ELSE ParseDigits(whole, 0) * 100 + cents

\* style.display set by searchProducts(query) on a card
SearchDisplay(card, query) ==
    LET queryLower == toLowerCase(query)
    IN IF \/ includes(LowerTextOf(card.name), queryLower)
          \/ includes(LowerTextOf(card.category), queryLower)
          \/ includes(LowerTextOf(card.description), queryLower)
       THEN "block" ELSE "none"

\* the price test written with strict comparisons
PriceDisplay_strict(card, minPrice, maxPrice) ==
    LET price == parseFloat(ReplaceDollar(TextOf(card.price)))
    IN IF JsGreater(price, minPrice * 100) /\ JsLess(price, maxPrice * 100)
       THEN "block" ELSE "none"

\* style.display set by filterByPrice(minPrice, maxPrice) on a card
PriceDisplay(card, minPrice, maxPrice) ==
    LET price == parseFloat(ReplaceDollar(TextOf(card.price)))
    IN IF JsGreaterEq(price, minPrice * 100) /\ JsLessEq(price, maxPrice * 100)
       THEN "block" ELSE "none"

Present(text) == [present |-> TRUE, text |-> text]
Absent == [present |-> FALSE, text |-> <<>>]

CardPool ==
    {[name |-> Present(<<"T", "e", "e">>), category |-> Present(<<"T", "o", "p", "s">>),
      description |-> Present(<<"S", "o", "f", "t">>), price |-> Present(<<"$", "1", "0">>)],
     [name |-> Present(<<"C", "a", "p">>), category |-> Present(<<"H", "a", "t", "s">>),
      description |-> Absent, price |-> Present(<<"$", "5", ".", "5", "0">>)],
     [name |-> Present(<<"H", "a", "t">>), category |-> Absent,
      description |-> Present(<<"t", "e", "e", " ", "s", "e", "t">>),
      price |-> Present(<<"N", "/", "A">>)],
     [name |-> Present(<<"S", "o", "c", "k">>), category |-> Present(<<"t", "o", "p", "s">>),
      description |-> Present(<<>>), price |-> Present(<<"$", "$", "7">>)],
     [name |-> Absent, category |-> Absent, description |-> Absent, price |-> Absent],
     [name |-> Present(<<"B", "a", "g">>), category |-> Present(<<"B", "a", "g", "s">>),
      description |-> Present(<<"b", "i", "g">>), price |-> Present(<<" ", "$", "5">>)]}

Queries == {<<>>, <<"T", "E">>, <<"t", "o", "p">>, <<"a">>, <<"s", "o">>, <<"x">>}

PriceBounds == {0, 5, 10}

FiltOff ==
    /\ cards = <<>>
    /\ cardDisplay = <<>>
    /\ filtLast = [fn |-> "none", query |-> <<>>, min |-> 0, max |-> 0]
    /\ filtPrev = <<>>

SearchProducts ==
    \E query \in Queries :
        /\ cardDisplay' = [i \in 1..Len(cards) |-> SearchDisplay(cards[i], query)]
        /\ filtLast' = [fn |-> "search", query |-> query, min |-> 0, max |-> 0]
        /\ filtPrev' = cardDisplay
        /\ UNCHANGED <<cards, NotFilt>>

FilterByPrice ==
    \E minPrice \in PriceBounds, maxPrice \in PriceBounds :
        /\ cardDisplay' = [i \in 1..Len(cards) |-> PriceDisplay(cards[i], minPrice, maxPrice)]
        /\ filtLast' = [fn |-> "price", query |-> <<>>, min |-> minPrice, max |-> maxPrice]
        /\ filtPrev' = cardDisplay
        /\ UNCHANGED <<cards, NotFilt>>

----------------------------------------------------------------------------
(* Specifications *)

InitEmail ==
    /\ emailIn \in EmailInputs
    /\ emailOut = "none"
    /\ QtyOff /\ WishOff /\ CsvOff /\ AdminOff /\ FormOff /\ CartOff /\ UrlOff /\ FiltOff

NextEmail == CallIsValidEmail

SpecEmail == InitEmail /\ [][NextEmail]_vars

InitQty ==
    /\ EmailOff /\ WishOff /\ CsvOff /\ AdminOff /\ FormOff /\ CartOff /\ UrlOff /\ FiltOff
    /\ qtyPresent = TRUE
    /\ \E m \in 1..MaxStock, v \in 1..MaxStock :
          /\ v <= m
          /\ qtyMaxAttr = NumToStr(m)
          /\ qtyValue = NumToStr(v)
    /\ qtyOp = "none"
    /\ qtyPrev = 0

NextQty == increaseQty \/ decreaseQty

SpecQty == InitQty /\ [][NextQty]_vars

InitWish == EmailOff /\ QtyOff /\ WishOff /\ CsvOff /\ AdminOff /\ FormOff /\ CartOff /\ UrlOff /\ FiltOff

NextWish == AddToWishlist

SpecWish == InitWish /\ [][NextWish]_vars

InitCsv ==
    /\ EmailOff /\ QtyOff /\ WishOff /\ AdminOff /\ FormOff /\ CartOff /\ UrlOff /\ FiltOff
    /\ serverOrders \in OrderLists
    /\ csvPc = "idle"
    /\ csvLogged = FALSE
    /\ csvText = <<>>
    /\ csvDownload = ""

NextCsv == ExportOrdersToCSV \/ ExportSettle

SpecCsv == InitCsv /\ [][NextCsv]_vars

InitAdmin ==
    /\ EmailOff /\ QtyOff /\ WishOff /\ FormOff /\ CartOff /\ UrlOff /\ FiltOff
    /\ serverOrders \in AdminOrderLists
    /\ csvPc = "idle"
    /\ csvLogged = FALSE
    /\ csvText = <<>>
    /\ csvDownload = ""
    /\ serverProducts \in ProductLists
    /\ FetchProductsIdle
    /\ FetchOrdersIdle
    /\ UpdateStatusIdle

NextAdmin ==
    \/ FetchProductsCall \/ FetchProductsSettle
    \/ FetchOrdersCall \/ FetchOrdersSettle
    \/ UpdateOrderStatusCall \/ UpdateOrderStatusOk \/ UpdateOrderStatusFail

SpecAdmin == InitAdmin /\ [][NextAdmin]_vars

InitForm ==
    /\ EmailOff /\ QtyOff /\ WishOff /\ CsvOff /\ AdminOff /\ CartOff /\ UrlOff /\ FiltOff
    /\ \E missing \in MissingSets :
          formFields = [id \in FieldIdSet |->
                           [present |-> id \notin missing, value |-> <<>>]]
    /\ formHighlighted = {}
    /\ formResult = "none"
    /\ formLastHighlight = {}
    /\ formPrevented = FALSE
    /\ formAlert = FALSE
    /\ formSubmitted = FALSE

NextForm == TypeField \/ SubmitCheckout

SpecForm == InitForm /\ [][NextForm]_vars

InitCart ==
    /\ EmailOff /\ QtyOff /\ WishOff /\ CsvOff /\ AdminOff /\ FormOff /\ UrlOff /\ FiltOff
    /\ cartServer = [p \in CartProducts |-> 1]
    /\ cartShown = cartServer
    /\ cartLocation = CartPage
    /\ cartPending = {}
    /\ cartCalls = 0
    /\ cartLastCall = [id |-> 0, quantity |-> 0]
    /\ cartPosts = 0
    /\ cartHandled = [n |-> 0, outcome |-> "none"]
    /\ cartConfirm = "none"
    /\ cartLogged = 0
    /\ cartReloads = 0

NextCart ==
    \/ UpdateCart \/ RemoveFromCart \/ ServerUpdateCart \/ ServerRemoveFromCart
    \/ CartResponse \/ CartNetworkError

SpecCart == InitCart /\ [][NextCart]_vars

InitUrl ==
    /\ EmailOff /\ QtyOff /\ WishOff /\ CsvOff /\ AdminOff /\ FormOff /\ CartOff /\ FiltOff
    /\ urlSearch \in InitialSearches
    /\ urlLastSort = "-"
    /\ urlLastCategory = "-"
    /\ urlLastNonEmpty = "-"

NextUrl == SortProducts \/ FilterByCategory

SpecUrl == InitUrl /\ [][NextUrl]_vars

InitFilt ==
    /\ EmailOff /\ QtyOff /\ WishOff /\ CsvOff /\ AdminOff /\ FormOff /\ CartOff /\ UrlOff
    /\ cards \in UNION {[1..n -> CardPool] : n \in 1..MaxCards}
    /\ cardDisplay = [i \in 1..Len(cards) |-> ""]
    /\ filtLast = [fn |-> "none", query |-> <<>>, min |-> 0, max |-> 0]
    /\ filtPrev = cardDisplay

NextFilt == SearchProducts \/ FilterByPrice

SpecFilt == InitFilt /\ [][NextFilt]_vars

----------------------------------------------------------------------------
(* Properties *)

QtyNum == parseInt(qtyValue)
QtyMax == parseInt(qtyMaxAttr)

\* C1: from 1 <= v <= max, after any sequence of increaseQty / decreaseQty
\* the field holds an integer in 1..max; increaseQty adds exactly 1 below max
\* and otherwise changes nothing, decreaseQty subtracts exactly 1 above 1 and
\* otherwise changes nothing.
C1_StepperBounded ==
    /\ qtyValue = NumToStr(QtyNum)
    /\ QtyNum >= 1
    /\ QtyNum <= QtyMax
    /\ qtyOp = "inc" => QtyNum = (IF qtyPrev < QtyMax THEN qtyPrev + 1 ELSE qtyPrev)
    /\ qtyOp = "dec" => QtyNum = (IF qtyPrev > 1 THEN qtyPrev - 1 ELSE qtyPrev)

\* increaseQty was called with the field already at max (> 9, two digits)
C1_Witness ==
    /\ qtyOp = "inc"
    /\ qtyPrev = QtyMax
    /\ QtyMax > 9

\* C4: isValidEmail is true exactly when the string has no whitespace, has
\* exactly one '@' with a non-empty part before it, and the part after the
\* '@' contains a '.' with at least one character before and after it; it
\* accepts user@example.com and rejects user@, @example.com, userexample.com.
EmailShape(s) ==
    /\ \A i \in 1..Len(s) : s[i] \notin Whitespace
    /\ Cardinality({i \in 1..Len(s) : s[i] = "@"}) = 1
    /\ LET at == CHOOSE i \in 1..Len(s) : s[i] = "@"
       IN /\ at > 1
          /\ \E d \in (at + 2)..(Len(s) - 1) : s[d] = "."

C4_EmailShape ==
    emailOut # "none" =>
        /\ (emailOut = "true") <=> EmailShape(emailIn)
        /\ emailIn = Str_user_at_example_com => emailOut = "true"
        /\ emailIn \in {Str_user_at, Str_at_example_com, Str_userexample_com}
              => emailOut = "false"

\* a string with two dots after the '@' has been accepted
C4_Witness ==
    /\ emailOut = "true"
    /\ emailIn = <<"u", "@", ".", ".", "u">>

\* C2: the stored wishlist holds exactly one entry per distinct id that was
\* added, mapped to the name of the most recent add of that id; re-adding
\* overwrites instead of duplicating, a repeated identical add changes
\* nothing, and other ids' entries are untouched.
StoredEntries == JsonEntries(WishText(wlItem))

C2_WishlistByKey ==
    /\ Len(StoredEntries) = Cardinality({id \in WishIds : wlLast[id].added})
    /\ \A id \in WishIds :
          wlLast[id].added <=>
             \E i \in 1..Len(StoredEntries) :
                /\ StoredEntries[i].key = ToPropertyKey(id)
                /\ StoredEntries[i].val = wlLast[id].name
    /\ \A i \in 1..Len(getWishlist) : getWishlist[i] = StoredEntries[i]
    /\ Len(getWishlist) = Len(StoredEntries)
    /\ \A id \in WishIds, name \in WishNames :
          AddToWishlistItem(AddToWishlistItem(wlItem, id, name), id, name)
             = AddToWishlistItem(wlItem, id, name)

\* every id is stored and an id was re-added under the name with a quote in it
C2_Witness ==
    /\ \A id \in WishIds : wlLast[id].added
    /\ \E id \in WishIds : wlLast[id].name = <<"5", Quote, Backslash>>
    /\ wlAlert = <<"T", "e", "e">> \o AddedSuffix

\* the lines of a text: the segments ended by a line feed, and a last
\* unterminated segment when there is one
SplitLines(t) ==
    LET p == Pieces(t, {i \in 1..Len(t) : t[i] = "\n"})
    IN IF p[Len(p)] = <<>> THEN SubSeq(p, 1, Len(p) - 1) ELSE p

\* the fields of a CSV record: split at the commas outside double quotes
SplitFields(t) ==
    Pieces(t, {i \in 1..Len(t) :
                 /\ t[i] = ","
                 /\ Cardinality({j \in 1..(i - 1) : t[j] = Quote}) % 2 = 0})

IsQuoted(f) == Len(f) >= 2 /\ f[1] = Quote /\ f[Len(f)] = Quote

Unquote(f) == SubSeq(f, 2, Len(f) - 1)

CsvLines == SplitLines(csvText)

\* the list fetchOrders returned to the export
ExportedOrders == IF csvLogged THEN <<>> ELSE serverOrders

CsvShape ==
    /\ Len(CsvLines) = 1 + Len(ExportedOrders)
    /\ CsvLines[1] \o <<"\n">> = CsvHeader
    /\ \A i \in 1..Len(ExportedOrders) : Len(SplitFields(CsvLines[i + 1])) = 6

C6_NetworkFailureHandling ==
    /\ (fpPc = "done" /\ fpLogged) => (fpSettled = "fulfilled" /\ fpValue = <<>>)
    /\ (foPc = "done" /\ foLogged) => (foSettled = "fulfilled" /\ foValue = <<>>)
    /\ uosOutcome = "network_error" => uosAlert = "error"
    /\ uosOutcome \in StatusOutcomes \ {"ok"} => (~uosReloaded /\ uosAlert # "success")

FieldIndex(id) == CHOOSE i \in 1..Len(FieldIds) : FieldIds[i] = id

\* C5 (as stated): the field is present and non-empty, the email well shaped
FieldFilled(id) ==
    /\ formFields[id].present
    /\ formFields[id].value # <<>>
    /\ id = "customer_email" => EmailShape(formFields[id].value)

\* C5 (amended): the text fields are non-empty after trimming
FieldAccepted(id) ==
    /\ formFields[id].present
    /\ formFields[id].value # <<>>
    /\ id \in {"customer_name", "shipping_address", "shipping_city"}
          => \E i \in 1..Len(formFields[id].value) :
                formFields[id].value[i] \notin Whitespace
    /\ id = "customer_email" => EmailShape(formFields[id].value)

\* C5 (as stated): validateCheckoutForm is true exactly when the five fields
\* are present and non-empty and the email is well shaped; on false exactly
\* one field is highlighted, the first offending one, and the submit is
\* blocked with an alert; on true no field is highlighted and the submit is
\* not blocked.
C5_FormValidation ==
    formResult # "none" =>
        /\ (formResult = "true") <=> \A id \in FieldIdSet : FieldFilled(id)
        /\ formResult = "false" =>
              /\ Cardinality(formHighlighted) = 1
              /\ \A id \in formHighlighted :
                    /\ ~FieldFilled(id)
                    /\ \A j \in 1..(FieldIndex(id) - 1) : FieldFilled(FieldIds[j])
              /\ formPrevented /\ formAlert
        /\ formResult = "true" =>
              (formHighlighted = {} /\ ~formPrevented /\ formSubmitted)

\* C5 (amended): validateCheckoutForm is true exactly when the five fields
\* are present, name, address and city are non-empty after trimming, the
\* payment is non-empty and the email is well shaped; a failing submit
\* highlights the first offending field when that element exists and no
\* other, is blocked and alerts; a passing submit highlights nothing and is
\* not blocked; highlights of earlier submits stay.
C5_FormValidationTrimmed ==
    formResult # "none" =>
        /\ (formResult = "true") <=> \A id \in FieldIdSet : FieldAccepted(id)
        /\ formResult = "false" =>
              /\ \E id \in FieldIdSet :
                    /\ ~FieldAccepted(id)
                    /\ \A j \in 1..(FieldIndex(id) - 1) : FieldAccepted(FieldIds[j])
                    /\ formLastHighlight = (IF formFields[id].present THEN {id} ELSE {})
              /\ formPrevented /\ formAlert /\ ~formSubmitted
        /\ formResult = "true" =>
              (formLastHighlight = {} /\ ~formPrevented /\ ~formAlert /\ formSubmitted)
        /\ formLastHighlight \subseteq formHighlighted

\* a submit failed on the city, after an earlier one had failed on the name
C5_Witness ==
    /\ formResult = "false"
    /\ formLastHighlight = {"shipping_city"}
    /\ formHighlighted = {"customer_name", "shipping_city"}
    /\ formFields["shipping_city"].value = <<" ">>

\* the requests in flight that were not in flight before the step
NewRequests == cartPending' \ cartPending

CartStep ==
    /\ cartCalls' # cartCalls =>
          /\ cartCalls' = cartCalls + 1
          /\ IF cartLastCall'.quantity >= 1
             THEN /\ cartPosts' = cartPosts + 1
                  /\ Cardinality(NewRequests) = 1
                  /\ \A r \in NewRequests :
                        /\ r.id = cartLastCall'.id
                        /\ r.quantity = cartLastCall'.quantity
                        /\ r.answer = "none"
                  /\ cartPending \subseteq cartPending'
                  /\ cartLocation' = cartLocation
             ELSE cartPosts' = cartPosts /\ cartPending' = cartPending
          /\ cartShown' = cartShown /\ cartReloads' = cartReloads
    /\ cartCalls' = cartCalls =>
          /\ cartPosts' = cartPosts
          /\ \A r \in NewRequests : \E o \in cartPending : o.n = r.n
    /\ cartReloads' # cartReloads =>
          /\ cartReloads' = cartReloads + 1
          /\ \E r \in cartPending : r.n = cartHandled'.n /\ r.answer = "true"
    /\ (cartHandled' # cartHandled /\ cartHandled'.outcome # "success") =>
          /\ cartReloads' = cartReloads
          /\ cartShown' = cartShown
          /\ cartLocation' = cartLocation
          /\ cartLogged' = cartLogged +
                (IF cartHandled'.outcome \in {"network_error", "parse_error"} THEN 1 ELSE 0)

\* C7: every updateCart call with quantity >= 1 issues exactly one POST to
\* /update-cart/{productId} with that quantity and is never sent again; the
\* page reloads only on a response whose success flag is true; on a false or
\* missing flag, a network failure or a parse failure the page is not
\* reloaded and what is displayed stays (a failure is only logged).
C7_CartUpdateProtocol == [][CartStep]_vars

\* two updates were posted, one failed and was logged, the other reloaded
C7_Witness ==
    /\ cartPosts = 2
    /\ cartLogged = 1
    /\ cartReloads = 1
    /\ cartHandled.outcome = "success"
    /\ cartShown[cartLastCall.id] = cartLastCall.quantity

CartRemovalStep ==
    /\ (cartCalls' # cartCalls /\ cartLastCall'.quantity < 1) =>
          /\ cartPosts' = cartPosts
          /\ cartPending' = cartPending
          /\ cartConfirm' \in {"yes", "no"}
          /\ cartConfirm' = "yes" =>
                cartLocation' = [path |-> "/remove-from-cart", id |-> cartLastCall'.id]
          /\ cartConfirm' = "no" =>
                (cartLocation' = cartLocation /\ cartServer' = cartServer
                 /\ cartShown' = cartShown)
    /\ (cartLocation'.path = "/remove-from-cart" /\ cartLocation' # cartLocation) =>
          cartConfirm' = "yes"

\* C8: updateCart with quantity < 1 never posts to /update-cart; it hands over
\* to removeFromCart, which navigates to /remove-from-cart/{productId} only
\* when the user confirms, and leaves location and cart alone otherwise.
C8_CartRemovalPath == [][CartRemovalStep]_vars

\* updateCart(2, 0) was called and the user declined the dialog
C8_Witness ==
    /\ cartCalls = 1
    /\ cartLastCall = [id |-> 2, quantity |-> 0]
    /\ cartConfirm = "no"
    /\ cartPosts = 0
    /\ cartLocation = CartPage

\* the values a query holds for a name, in order
ValuesOf(search, name) ==
    LET ps == ParseQuery(search)
        Named(pair) == pair.name = name
        sel == SelectSeq(ps, Named)
    IN [k \in 1..Len(sel) |-> sel[k].value]

\* the pairs a query holds under other names, in order
OthersOf(search, name) ==
    LET Keep(pair) == pair.name # name IN SelectSeq(ParseQuery(search), Keep)

UrlFrameStep ==
    /\ urlLastSort' # urlLastSort => OthersOf(urlSearch', "sort") = OthersOf(urlSearch, "sort")
    /\ urlLastCategory' # urlLastCategory =>
          OthersOf(urlSearch', "category") = OthersOf(urlSearch, "category")

UrlFrame == [][UrlFrameStep]_vars

\* C10 (as stated): sortProducts and filterByCategory change only their own
\* parameter; after any sequence of calls the URL holds the most recent sort
\* and the most recent non-empty category, with at most one value for each.
C10_UrlHoldsLastNonEmpty ==
    /\ urlLastSort # "-" => ValuesOf(urlSearch, "sort") = <<urlLastSort>>
    /\ urlLastNonEmpty # "-" => ValuesOf(urlSearch, "category") = <<urlLastNonEmpty>>
    /\ (urlLastSort # "-" \/ urlLastCategory # "-") =>
          /\ Len(ValuesOf(urlSearch, "sort")) <= 1
          /\ Len(ValuesOf(urlSearch, "category")) <= 1

\* C10 (amended): sortProducts and filterByCategory change only their own
\* parameter; once sortProducts has been called the URL holds exactly one
\* sort, the most recent; once filterByCategory has been called the URL holds
\* exactly the category of the most recent call when that was non-empty and
\* no category when it was empty.
C10_UrlHoldsLastCall ==
    /\ [](urlLastSort # "-" => ValuesOf(urlSearch, "sort") = <<urlLastSort>>)
    /\ [](urlLastCategory \notin {"-", ""} =>
             ValuesOf(urlSearch, "category") = <<urlLastCategory>>)
    /\ [](urlLastCategory = "" => ValuesOf(urlSearch, "category") = <<>>)
    /\ UrlFrame

\* the category was cleared after a sort, on a URL that came with two sorts
C10_Witness ==
    /\ urlLastCategory = ""
    /\ urlLastNonEmpty = "caps"
    /\ urlLastSort = "name"
    /\ urlSearch = <<"?", "sort", "=", "name", "&", "q", "=", "x">>

\* q is a substring of the lower-cased text of the element (no element: "")
LowerContains(el, q) ==
    LET t == IF el.present THEN toLowerCase(el.text) ELSE <<>>
    IN \E i \in 1..(Len(t) + 1), j \in 0..Len(t) :
          /\ j - i + 1 = Len(q)
          /\ \A k \in 1..Len(q) : t[i + k - 1] = q[k]

CardPrice(card) == parseFloat(ReplaceDollar(TextOf(card.price)))

\* C9: the filters are last-call-wins: after searchProducts(q) a card is
\* shown iff lower-cased q is a substring of its lower-cased name, category
\* or description; after filterByPrice(min, max) iff its parsed price p has
\* min <= p <= max; earlier calls do not count, searchProducts('') shows
\* every card and a card without a parsable price is hidden by every
\* filterByPrice call.
C9_LastFilterWins ==
    /\ filtLast.fn = "search" =>
          \A i \in 1..Len(cards) :
             /\ cardDisplay[i] \in {"block", "none"}
             /\ cardDisplay[i] = "block" <=>
                   LET q == toLowerCase(filtLast.query)
                   IN \/ LowerContains(cards[i].name, q)
                      \/ LowerContains(cards[i].category, q)
                      \/ LowerContains(cards[i].description, q)
             /\ filtLast.query = <<>> => cardDisplay[i] = "block"
    /\ filtLast.fn = "price" =>
          \A i \in 1..Len(cards) :
             /\ cardDisplay[i] \in {"block", "none"}
             /\ cardDisplay[i] = "block" <=>
                   /\ CardPrice(cards[i]) # NaN
                   /\ filtLast.min * 100 <= CardPrice(cards[i])
                   /\ CardPrice(cards[i]) <= filtLast.max * 100
             /\ CardPrice(cards[i]) = NaN => cardDisplay[i] = "none"

\* a card hidden by a search is shown again by a price filter whose lower
\* bound is its price, while a card with an unparsable price is hidden
C9_Witness ==
    /\ filtLast.fn = "price"
    /\ Len(cards) = 2
    /\ filtPrev[1] = "none" /\ cardDisplay[1] = "block"
    /\ CardPrice(cards[1]) = filtLast.min * 100
    /\ CardPrice(cards[2]) = NaN /\ cardDisplay[2] = "none"

====
